---- MODULE Spec2Model ----
(***************************************************************************)
(* postkast: prints inbox summaries of the configured IMAP accounts.       *)
(*                                                                         *)
(* src/src/settings.rs  the configuration data model (Settings, Server,    *)
(*                      Imap, Tls, Credentials) and its builders           *)
(* src/src/main.rs      main (the per-account loop), list_inbox (dial,     *)
(*                      login, select, fetch, print, logout) and           *)
(*                      print_addresses                                    *)
(*                                                                         *)
(* Four specifications share the variables:                                *)
(*   Spec           a whole run of main over the loaded settings           *)
(*   SpecConfig     a Server built from Server::default() with the         *)
(*                  with_* builders                                        *)
(*   SpecProjector  the envelope printing loop of list_inbox on a batch    *)
(*   SpecAddress    print_addresses on a list of addresses                 *)
(***************************************************************************)
EXTENDS Integers, Sequences, FiniteSets

VARIABLES
    pc,          \* position of the single thread of control
    servers,     \* Settings.servers, as Settings::load produced it
    idx,         \* position of main's iterator over settings.servers()
    sessions,    \* the connections this process holds open
    messages,    \* the batch fetch returned (list_inbox's `messages`)
    result,      \* the value list_inbox returns to main
    stdout,      \* lines written to standard output
    stderr,      \* diagnostics written to standard error
    exit_status, \* None while the process runs, Some(code) once it ended
    trace,       \* history: the steps taken on the server, per account
    reported,    \* history: the accounts main has matched a result for
    server,      \* the Server under construction (print_default, builders)
    head,        \* print_addresses' `head`
    addresses    \* print_addresses' `addresses`

vars == <<pc, servers, idx, sessions, messages, result, stdout, stderr,
          exit_status, trace, reported, server, head, addresses>>

-----------------------------------------------------------------------------
(* Bounds of the model *)

\* longest list of configured accounts
MaxServers == 3
\* longest batch the projector specification draws
MaxBatch == 2
\* longest address list the address specification draws
MaxAddresses == 1

-----------------------------------------------------------------------------
(* Option<T> *)

None == <<>>

Some(x) == <<x>>

IsSome(o) == o # <<>>

Unwrap(o) == o[1]

-----------------------------------------------------------------------------
(* settings.rs: the configuration model *)

DEFAULT_SERVER_NAME == "default"

DEFAULT_SERVER_HOST == "localhost"

DEFAULT_SMTP_PORT == 25

DEFAULT_IMAP_PORT == 143

DEFAULT_SMTP_TLS_PORT == 465

DEFAULT_IMAP_TLS_PORT == 993

Tls(port) == [port |-> port]

CredentialsNone == [kind |-> "None"]

UsernameAndPassword(username, password) ==
    [kind |-> "UsernameAndPassword", username |-> username, password |-> password]

SmtpDefault ==
    [host |-> "localhost", port |-> DEFAULT_SMTP_PORT, tls |-> None]

ImapDefault ==
    [host |-> DEFAULT_SERVER_NAME, port |-> DEFAULT_IMAP_PORT, tls |-> None]

ServerDefault ==
    [name |-> DEFAULT_SERVER_NAME, smtp |-> SmtpDefault, imap |-> ImapDefault,
     credentials |-> CredentialsNone]

Tls_default_imap == Tls(DEFAULT_IMAP_TLS_PORT)

\* accessors
Server_name(self) == self.name

Server_imap(self) == self.imap

Server_credentials(self) == self.credentials

Imap_host(self) == self.host

Imap_tls(self) == self.tls

\* a port() that forgets the TLS override
Imap_port_BasePortOnly(self) == self.port

Imap_port(self) ==
    IF IsSome(Imap_tls(self)) THEN Unwrap(Imap_tls(self)).port ELSE self.port

\* builders of Imap
Imap_with_host(self, host) == [self EXCEPT !.host = host]

Imap_with_port(self, port) == [self EXCEPT !.port = port]

Imap_with_tls(self, tls) == [self EXCEPT !.tls = Some(tls)]

Imap_with_default_tls(self) == [self EXCEPT !.tls = Some(Tls_default_imap)]

\* builders of Server
Server_with_name(self, name) == [self EXCEPT !.name = name]

Server_with_imap(self, imap) == [self EXCEPT !.imap = imap]

Server_with_imap_host(self, host) ==
    [self EXCEPT !.imap = Imap_with_host(self.imap, host)]

Server_with_imap_host_and_port(self, host, port) ==
    [self EXCEPT !.imap = Imap_with_port(Imap_with_host(self.imap, host), port)]

Server_with_imap_host_and_tls_port(self, host, port) ==
    [self EXCEPT !.imap = Imap_with_tls(Imap_with_host(self.imap, host), Tls(port))]

Server_with_username_and_password(self, username, password) ==
    [self EXCEPT !.credentials = UsernameAndPassword(username, password)]

\* the sample server Settings::print_default builds
SampleServer ==
    Server_with_username_and_password(
        Server_with_imap_host_and_tls_port(
            Server_with_name(ServerDefault, "GMail"), "imap.google.com", 993),
        "username", "password")

-----------------------------------------------------------------------------
(* main.rs: decoding and printing of envelopes *)

\* std::str::from_utf8 on a sequence of bytes (each 0..255): the code points
\* of a well-formed UTF-8 string, or None.
Utf8Width(b) ==
    IF b <= 127 THEN 1
    ELSE IF b >= 194 /\ b <= 223 THEN 2
    ELSE IF b >= 224 /\ b <= 239 THEN 3
    ELSE IF b >= 240 /\ b <= 244 THEN 4
    ELSE 0

Utf8Continuation(b) == b >= 128 /\ b <= 191

\* the second byte of a sequence is further restricted by the lead byte
\* (no overlong forms, no surrogates, nothing above U+10FFFF)
Utf8SecondOk(lead, b) ==
    IF lead = 224 THEN b >= 160 /\ b <= 191
    ELSE IF lead = 237 THEN b >= 128 /\ b <= 159
    ELSE IF lead = 240 THEN b >= 144 /\ b <= 191
    ELSE IF lead = 244 THEN b >= 128 /\ b <= 143
    ELSE Utf8Continuation(b)

Utf8CodePoint(bytes, i, w) ==
    IF w = 1 THEN bytes[i]
    ELSE IF w = 2 THEN (bytes[i] - 192) * 64 + (bytes[i + 1] - 128)
    ELSE IF w = 3 THEN (bytes[i] - 224) * 4096 + (bytes[i + 1] - 128) * 64
                       + (bytes[i + 2] - 128)
    ELSE (bytes[i] - 240) * 262144 + (bytes[i + 1] - 128) * 4096
         + (bytes[i + 2] - 128) * 64 + (bytes[i + 3] - 128)

RECURSIVE Utf8From(_, _)
Utf8From(bytes, i) ==
    IF i > Len(bytes) THEN Some(<<>>)
    ELSE LET w == Utf8Width(bytes[i])
         IN  IF \/ w = 0
                \/ i + w - 1 > Len(bytes)
                \/ (w >= 2 /\ ~Utf8SecondOk(bytes[i], bytes[i + 1]))
                \/ \E k \in 2 .. (w - 1) : ~Utf8Continuation(bytes[i + k])
             THEN None
             ELSE LET rest == Utf8From(bytes, i + w)
                  IN  IF IsSome(rest)
                      THEN Some(<<Utf8CodePoint(bytes, i, w)>> \o Unwrap(rest))
                      ELSE None

\* the printed form of a code point, tabulated for the code points that the
\* byte strings of the bounded inputs decode to
Chr(cp) ==
    CASE cp = 100 -> "d"
      [] cp = 104 -> "h"
      [] cp = 109 -> "m"
      [] cp = 110 -> "n"
      [] cp = 115 -> "s"
      [] cp = 233 -> "<U+00E9>"

RECURSIVE CodePointsText(_)
CodePointsText(cps) ==
    IF cps = <<>> THEN "" ELSE Chr(Head(cps)) \o CodePointsText(Tail(cps))

\* from_utf8(bytes).ok(): Option<&str>
from_utf8_ok(bytes) ==
    LET cps == Utf8From(bytes, 1)
    IN  IF IsSome(cps) THEN Some(CodePointsText(Unwrap(cps))) ELSE None

\* Option::and_then(|v| from_utf8(v).ok())
decode_to_str(field) ==
    IF IsSome(field) THEN from_utf8_ok(Unwrap(field)) ELSE None

\* a sub-field printed as an empty string when it is missing
PrintSubField_EmptyWhenMissing(field) ==
    LET text == decode_to_str(field)
    IN  IF IsSome(text) THEN "\"" \o Unwrap(text) \o "\"" ELSE "\"\""

\* one sub-field of an address: print!("\"{:}\"", text) or print!("NIL")
PrintSubField(field) ==
    LET text == decode_to_str(field)
    IN  IF IsSome(text) THEN "\"" \o Unwrap(text) \o "\"" ELSE "NIL"

\* the body of print_addresses' loop: what one address adds to the line
PrintAddress(address) ==
    "(" \o PrintSubField(address.name) \o " " \o PrintSubField(address.adl)
        \o " " \o PrintSubField(address.mailbox) \o " "
        \o PrintSubField(address.host) \o "), "

RECURSIVE PrintAddressList(_)
PrintAddressList(list) ==
    IF list = <<>> THEN ""
    ELSE PrintAddress(Head(list)) \o PrintAddressList(Tail(list))

\* print_addresses(head, addresses): the one line it writes
print_addresses(h, list) == h \o PrintAddressList(list)

\* an address field of the envelope: a line when the field is populated
AddressFieldLines(h, field) ==
    IF IsSome(field) THEN <<print_addresses(h, Unwrap(field))>> ELSE <<>>

\* Date and Subject: a line when the field is present and decodes
TextFieldLines(h, field) ==
    LET text == decode_to_str(field)
    IN  IF IsSome(text) THEN <<h \o Unwrap(text)>> ELSE <<>>

\* an envelope printed with To before From
EnvelopeLines_ToFirst(envelope) ==
    AddressFieldLines("To: ", envelope.to)
        \o AddressFieldLines("From: ", envelope.from)
        \o AddressFieldLines("Cc: ", envelope.cc)
        \o AddressFieldLines("Bcc: ", envelope.bcc)
        \o TextFieldLines("Date: ", envelope.date)
        \o TextFieldLines("Subject: ", envelope.subject)

EnvelopeLines(envelope) ==
    AddressFieldLines("From: ", envelope.from)
        \o AddressFieldLines("To: ", envelope.to)
        \o AddressFieldLines("Cc: ", envelope.cc)
        \o AddressFieldLines("Bcc: ", envelope.bcc)
        \o TextFieldLines("Date: ", envelope.date)
        \o TextFieldLines("Subject: ", envelope.subject)

\* one iteration of `for message in messages.iter()`
PrintMessage(message) ==
    <<"---">> \o (IF IsSome(message.envelope)
                  THEN EnvelopeLines(Unwrap(message.envelope))
                  ELSE <<>>)

RECURSIVE PrintMessages(_)
PrintMessages(batch) ==
    IF batch = <<>> THEN <<>>
    ELSE PrintMessage(Head(batch)) \o PrintMessages(Tail(batch))

-----------------------------------------------------------------------------
(* main.rs: ConnectionError and the results of list_inbox *)

Ok == [kind |-> "Ok"]

ConfigError(msg) == [kind |-> "ConfigError", msg |-> msg]

ImapError(e) == [kind |-> "ImapError", err |-> e]

\* format!("No TLS configured for '{:}'", name)
NoTlsMessage(name) == "No TLS configured for '" \o name \o "'"

\* format!("No username and password configured for '{:?}'", name)
NoCredentialsMessage(name) ==
    "No username and password configured for '\"" \o name \o "\"'"

\* imap::Error values the session calls may return: the negative response
\* `No`, and the others (`Bad` for a command, `Io` for the connection)
ConnectErrors == {"No", "Io"}

CommandErrors == {"No", "Bad"}

\* exit status of a panicking process
PanicStatus == 101

-----------------------------------------------------------------------------
(* The settings Settings::load may produce, and what fetch may return *)

AccountNames == {"default", "GMail"}

ImapEndpoints ==
    {ImapDefault,
     Imap_with_tls(Imap_with_host(ImapDefault, "imap.google.com"), Tls(993))}

CredentialsSet == {CredentialsNone, UsernameAndPassword("username", "password")}

ServerSet ==
    {[name |-> n, smtp |-> SmtpDefault, imap |-> i, credentials |-> c] :
        n \in AccountNames, i \in ImapEndpoints, c \in CredentialsSet}

SeqsUpTo(S, n) == UNION {[1 .. k -> S] : k \in 0 .. n}

SettingsSet == SeqsUpTo(ServerSet, MaxServers)

Address(name, adl, mailbox, host) ==
    [name |-> name, adl |-> adl, mailbox |-> mailbox, host |-> host]

Envelope(date, subject, from, to, cc, bcc) ==
    [date |-> date, subject |-> subject, from |-> from, to |-> to,
     cc |-> cc, bcc |-> bcc]

Message(envelope) == [envelope |-> envelope]

\* "m", "h", e-acute, a truncated sequence
BytesM == <<109>>

BytesH == <<104>>

BytesEAcute == <<195, 169>>

BytesTruncated == <<195>>

AddressMH == Address(None, None, Some(BytesM), Some(BytesH))

\* the batches fetch returns in a run: an empty one, and a message with an
\* envelope (SpecProjector covers the other batches)
FetchedBatches ==
    {<<>>,
     <<Message(Some(Envelope(Some(<<100>>), Some(<<115>>), Some(<<AddressMH>>),
                             None, None, None)))>>}

\* the addresses print_addresses is applied to: every sub-field absent,
\* well-formed or malformed
BytesN == <<110>>

BytesInvalid == <<255>>

AddressSet ==
    {Address(n, a, m, h) :
        n \in {None, Some(BytesN), Some(BytesEAcute), Some(BytesTruncated)},
        a \in {None, Some(BytesEAcute), Some(BytesTruncated)},
        m \in {None, Some(BytesM), Some(BytesTruncated)},
        h \in {None, Some(BytesH), Some(BytesInvalid)}}

Heads == {"From: ", "To: ", "Cc: ", "Bcc: "}

AddressLists == SeqsUpTo(AddressSet, MaxAddresses)

\* the messages the envelope printing loop is applied to
AddressNoHost == Address(Some(BytesN), None, Some(BytesM), None)

AddressAllNil == Address(None, None, None, None)

EnvelopeSet ==
    {Envelope(d, s, f, t, c, b) :
        d \in {None, Some(<<100>>), Some(BytesTruncated)},
        s \in {None, Some(<<115>>)},
        f \in {None, Some(<<AddressMH>>)},
        t \in {None, Some(<<AddressNoHost, AddressMH>>)},
        c \in {None, Some(<<>>)},
        b \in {None, Some(<<AddressAllNil>>)}}

MessageSet == {Message(None)} \cup {Message(Some(e)) : e \in EnvelopeSet}

Batches == SeqsUpTo(MessageSet, MaxBatch)

-----------------------------------------------------------------------------
(* main.rs: main and list_inbox, step by step *)

\* history of the calls made on the server: outcome is "Ok" or the error
Log(step, outcome) ==
    Append(trace, [account |-> idx, step |-> step, outcome |-> outcome])

\* a client or session that is not released when it goes out of scope
Dropped_Leaks == sessions

\* the connections left once the current account's client or session is
\* dropped (list_inbox returns, or login consumed the client and failed)
Dropped == {c \in sessions : c.account # idx}

\* list_inbox returns r to main; its locals go out of scope
Return(r) ==
    /\ result' = r
    /\ sessions' = Dropped
    /\ pc' = "report"

\* main, Settings::load() returned Err: print the sample, report, exit(1)
LoadErr ==
    /\ pc = "load"
    /\ server' = SampleServer
    /\ \E toml_ok \in BOOLEAN :
          /\ stdout' = stdout \o <<"Loading settings from <Settings.toml>">>
                         \o (IF toml_ok THEN <<"<sample settings>">> ELSE <<>>)
          /\ stderr' = stderr \o (IF toml_ok THEN <<>> ELSE <<<<"ERR", "toml">>>>)
                         \o <<<<"ERROR", "settings">>>>
    /\ exit_status' = Some(1)
    /\ pc' = "exited"
    /\ UNCHANGED <<servers, idx, sessions, messages, result, trace, reported,
                   head, addresses>>

\* main, Settings::load() returned Ok(settings)
LoadOk ==
    /\ pc = "load"
    /\ \E settings \in SettingsSet : servers' = settings
    /\ stdout' = stdout \o <<"Loading settings from <Settings.toml>">>
    /\ idx' = 1
    /\ pc' = "loop"
    /\ UNCHANGED <<sessions, messages, result, stderr, exit_status, trace,
                   reported, server, head, addresses>>

\* for server in settings.servers(): the next account, or the end of main
NextServer ==
    /\ pc = "loop"
    /\ idx <= Len(servers)
    /\ pc' = "dial"
    /\ UNCHANGED <<servers, idx, sessions, messages, result, stdout, stderr,
                   exit_status, trace, reported, server, head, addresses>>

Finish ==
    /\ pc = "loop"
    /\ idx > Len(servers)
    /\ exit_status' = Some(0)
    /\ pc' = "exited"
    /\ UNCHANGED <<servers, idx, sessions, messages, result, stdout, stderr,
                   trace, reported, server, head, addresses>>

\* a dial that falls back to a plaintext connection on the base port
DialNoTls_Plaintext ==
    /\ pc = "dial"
    /\ ~IsSome(Imap_tls(Server_imap(servers[idx])))
    /\ trace' = Log("connect", "Ok")
    /\ sessions' = sessions \cup
          {[account |-> idx,
            host |-> Imap_host(Server_imap(servers[idx])),
            port |-> Imap_port(Server_imap(servers[idx])),
            state |-> "Unauthenticated"]}
    /\ pc' = "login"
    /\ UNCHANGED <<servers, idx, messages, result, stdout, stderr, exit_status,
                   reported, server, head, addresses>>

\* list_inbox: server.tls() is None
DialNoTls ==
    /\ pc = "dial"
    /\ ~IsSome(Imap_tls(Server_imap(servers[idx])))
    /\ Return(ConfigError(NoTlsMessage(Server_name(servers[idx]))))
    /\ UNCHANGED <<servers, idx, messages, stdout, stderr, exit_status, trace,
                   reported, server, head, addresses>>

\* list_inbox: TlsConnector::builder().build().unwrap() panics
DialPanic ==
    /\ pc = "dial"
    /\ IsSome(Imap_tls(Server_imap(servers[idx])))
    /\ exit_status' = Some(PanicStatus)
    /\ pc' = "exited"
    /\ UNCHANGED <<servers, idx, sessions, messages, result, stdout, stderr,
                   trace, reported, server, head, addresses>>

\* list_inbox: imap::connect((domain, port), domain, &tls)
DialConnect ==
    /\ pc = "dial"
    /\ IsSome(Imap_tls(Server_imap(servers[idx])))
    /\ \/ /\ trace' = Log("connect", "Ok")
          /\ sessions' = sessions \cup
                {[account |-> idx,
                  host |-> Imap_host(Server_imap(servers[idx])),
                  port |-> Imap_port(Server_imap(servers[idx])),
                  state |-> "Unauthenticated"]}
          /\ pc' = "login"
          /\ UNCHANGED result
       \/ \E e \in ConnectErrors :
             /\ trace' = Log("connect", e)
             /\ Return(ImapError(e))
    /\ UNCHANGED <<servers, idx, messages, stdout, stderr, exit_status,
                   reported, server, head, addresses>>

\* a login that submits empty credentials and lets the server reject them
LoginNoCredentials_Submits ==
    /\ pc = "login"
    /\ Server_credentials(servers[idx]).kind = "None"
    /\ trace' = Log("login", "No")
    /\ Return(ImapError("No"))
    /\ UNCHANGED <<servers, idx, messages, stdout, stderr, exit_status,
                   reported, server, head, addresses>>

\* list_inbox: Credentials::None
LoginNoCredentials ==
    /\ pc = "login"
    /\ Server_credentials(servers[idx]).kind = "None"
    /\ Return(ConfigError(NoCredentialsMessage(Server_name(servers[idx]))))
    /\ UNCHANGED <<servers, idx, messages, stdout, stderr, exit_status, trace,
                   reported, server, head, addresses>>

\* list_inbox: client.login(username, password)?
Login ==
    /\ pc = "login"
    /\ Server_credentials(servers[idx]).kind = "UsernameAndPassword"
    /\ \/ /\ trace' = Log("login", "Ok")
          /\ sessions' = {IF c.account = idx
                          THEN [c EXCEPT !.state = "Authenticated"] ELSE c :
                          c \in sessions}
          /\ pc' = "select"
          /\ UNCHANGED result
       \/ \E e \in CommandErrors :
             /\ trace' = Log("login", e)
             /\ Return(ImapError(e))
    /\ UNCHANGED <<servers, idx, messages, stdout, stderr, exit_status,
                   reported, server, head, addresses>>

\* list_inbox: imap_session.select("INBOX")?
Select ==
    /\ pc = "select"
    /\ \/ /\ trace' = Log("select", "Ok")
          /\ sessions' = {IF c.account = idx
                          THEN [c EXCEPT !.state = "MailboxSelected"] ELSE c :
                          c \in sessions}
          /\ pc' = "fetch"
          /\ UNCHANGED result
       \/ \E e \in CommandErrors :
             /\ trace' = Log("select", e)
             /\ Return(ImapError(e))
    /\ UNCHANGED <<servers, idx, messages, stdout, stderr, exit_status,
                   reported, server, head, addresses>>

\* list_inbox: imap_session.fetch("1:100", "ALL")?
Fetch ==
    /\ pc = "fetch"
    /\ \/ /\ \E batch \in FetchedBatches : messages' = batch
          /\ trace' = Log("fetch", "Ok")
          /\ pc' = "print"
          /\ UNCHANGED <<result, sessions>>
       \/ /\ \E e \in CommandErrors :
                /\ trace' = Log("fetch", e)
                /\ Return(ImapError(e))
          /\ UNCHANGED messages
    /\ UNCHANGED <<servers, idx, stdout, stderr, exit_status, reported, server,
                   head, addresses>>

\* a print loop after which list_inbox returns without logging out
PrintEnvelopes_NoLogout ==
    /\ pc = "print"
    /\ stdout' = stdout \o PrintMessages(messages)
    /\ trace' = Log("print", "Ok")
    /\ Return(Ok)
    /\ UNCHANGED <<servers, idx, messages, stderr, exit_status, reported,
                   server, head, addresses>>

\* list_inbox: for message in messages.iter() { ... }
PrintEnvelopes ==
    /\ pc = "print"
    /\ stdout' = stdout \o PrintMessages(messages)
    /\ trace' = Log("print", "Ok")
    /\ pc' = "logout"
    /\ UNCHANGED <<servers, idx, sessions, messages, result, stderr,
                   exit_status, reported, server, head, addresses>>

\* list_inbox: imap_session.logout()?; Ok(())
Logout ==
    /\ pc = "logout"
    /\ \/ /\ trace' = Log("logout", "Ok")
          /\ Return(Ok)
       \/ \E e \in CommandErrors :
             /\ trace' = Log("logout", e)
             /\ Return(ImapError(e))
    /\ UNCHANGED <<servers, idx, messages, stdout, stderr, exit_status,
                   reported, server, head, addresses>>

\* a match without the fatal arm, and one whose fatal arm takes every
\* ImapError
IsFatal_Never(r) == FALSE

IsFatal_AnyImapError(r) == r.kind = "ImapError"

\* exit_with_message(1, ...): process::exit ends the run
IsFatal(r) == r.kind = "ImapError" /\ r.err = "No"

\* what main's match writes for a result
ReportStdout(r) == IF r.kind = "Ok" THEN <<"---", "Done.">> ELSE <<>>

ReportStderr(r) ==
    CASE r.kind = "Ok" -> <<>>
      [] r.kind = "ImapError" /\ r.err = "No" -> <<<<"ERROR", "Invalid 0">>>>
      [] r.kind = "ImapError" /\ r.err # "No" -> <<<<"IMAP", r.err>>>>
      [] r.kind = "ConfigError" -> <<<<"CONFIG", r.msg>>>>
      [] r.kind = "EncodingError" -> <<<<"Encoding", r.err>>>>

\* main: match list_inbox(&server) { ... }
Report ==
    /\ pc = "report"
    /\ stdout' = stdout \o ReportStdout(result)
    /\ stderr' = stderr \o ReportStderr(result)
    /\ reported' = Append(reported, [account |-> idx, result |-> result])
    /\ IF IsFatal(result)
       THEN /\ exit_status' = Some(1)
            /\ pc' = "exited"
            /\ idx' = idx
       ELSE /\ exit_status' = exit_status
            /\ pc' = "loop"
            /\ idx' = idx + 1
    /\ UNCHANGED <<servers, sessions, messages, result, trace, server, head,
                   addresses>>

Init ==
    /\ pc = "load"
    /\ servers = <<>>
    /\ idx = 0
    /\ sessions = {}
    /\ messages = <<>>
    /\ result = Ok
    /\ stdout = <<>>
    /\ stderr = <<>>
    /\ exit_status = None
    /\ trace = <<>>
    /\ reported = <<>>
    /\ server = ServerDefault
    /\ head = ""
    /\ addresses = <<>>

Next ==
    \/ LoadErr
    \/ LoadOk
    \/ NextServer
    \/ Finish
    \/ DialNoTls
    \/ DialPanic
    \/ DialConnect
    \/ LoginNoCredentials
    \/ Login
    \/ Select
    \/ Fetch
    \/ PrintEnvelopes
    \/ Logout
    \/ Report

Spec == Init /\ [][Next]_vars

-----------------------------------------------------------------------------
(* SpecProjector: the envelope printing loop on any fetched batch *)

InitProjector ==
    /\ pc = "print"
    /\ messages \in Batches
    /\ servers = <<>>
    /\ idx = 1
    /\ sessions = {}
    /\ result = Ok
    /\ stdout = <<>>
    /\ stderr = <<>>
    /\ exit_status = None
    /\ trace = <<>>
    /\ reported = <<>>
    /\ server = ServerDefault
    /\ head = ""
    /\ addresses = <<>>

NextProjector == PrintEnvelopes

SpecProjector == InitProjector /\ [][NextProjector]_vars

-----------------------------------------------------------------------------
(* SpecAddress: print_addresses on any list of addresses *)

\* print_addresses(head, addresses)
PrintAddresses ==
    /\ pc = "print_addresses"
    /\ stdout' = Append(stdout, print_addresses(head, addresses))
    /\ pc' = "printed"
    /\ UNCHANGED <<servers, idx, sessions, messages, result, stderr,
                   exit_status, trace, reported, server, head, addresses>>

InitAddress ==
    /\ pc = "print_addresses"
    /\ head \in Heads
    /\ addresses \in AddressLists
    /\ messages = <<>>
    /\ servers = <<>>
    /\ idx = 0
    /\ sessions = {}
    /\ result = Ok
    /\ stdout = <<>>
    /\ stderr = <<>>
    /\ exit_status = None
    /\ trace = <<>>
    /\ reported = <<>>
    /\ server = ServerDefault

NextAddress == PrintAddresses

SpecAddress == InitAddress /\ [][NextAddress]_vars

-----------------------------------------------------------------------------
(* SpecConfig: a Server built from Server::default() with the builders *)

ConfigNames == {"GMail", "work"}

ConfigHosts == {"imap.google.com", "mail.example.org"}

ConfigPorts == {143, 993, 1993}

\* the Imap values the Imap builders make of Imap::default()
BuiltImaps ==
    {Imap_with_default_tls(ImapDefault)}
        \cup {Imap_with_port(ImapDefault, p) : p \in ConfigPorts}
        \cup {Imap_with_tls(Imap_with_host(ImapDefault, h), Tls(p)) :
                h \in ConfigHosts, p \in ConfigPorts}

configRest == <<servers, idx, sessions, messages, result, stdout, stderr,
                exit_status, trace, reported, head, addresses>>

with_name ==
    /\ pc \in {"default", "built"}
    /\ \E n \in ConfigNames : server' = Server_with_name(server, n)
    /\ pc' = "built"
    /\ UNCHANGED configRest

with_imap ==
    /\ pc \in {"default", "built"}
    /\ \E i \in BuiltImaps : server' = Server_with_imap(server, i)
    /\ pc' = "built"
    /\ UNCHANGED configRest

with_imap_host ==
    /\ pc \in {"default", "built"}
    /\ \E h \in ConfigHosts : server' = Server_with_imap_host(server, h)
    /\ pc' = "built"
    /\ UNCHANGED configRest

with_imap_host_and_port ==
    /\ pc \in {"default", "built"}
    /\ \E h \in ConfigHosts, p \in ConfigPorts :
          server' = Server_with_imap_host_and_port(server, h, p)
    /\ pc' = "built"
    /\ UNCHANGED configRest

with_imap_host_and_tls_port ==
    /\ pc \in {"default", "built"}
    /\ \E h \in ConfigHosts, p \in ConfigPorts :
          server' = Server_with_imap_host_and_tls_port(server, h, p)
    /\ pc' = "built"
    /\ UNCHANGED configRest

with_username_and_password ==
    /\ pc \in {"default", "built"}
    /\ server' = Server_with_username_and_password(server, "username", "password")
    /\ pc' = "built"
    /\ UNCHANGED configRest

\* Server::default()
InitConfig ==
    /\ pc = "default"
    /\ server = ServerDefault
    /\ servers = <<>>
    /\ idx = 0
    /\ sessions = {}
    /\ messages = <<>>
    /\ result = Ok
    /\ stdout = <<>>
    /\ stderr = <<>>
    /\ exit_status = None
    /\ trace = <<>>
    /\ reported = <<>>
    /\ head = ""
    /\ addresses = <<>>

NextConfig ==
    \/ with_name
    \/ with_imap
    \/ with_imap_host
    \/ with_imap_host_and_port
    \/ with_imap_host_and_tls_port
    \/ with_username_and_password

SpecConfig == InitConfig /\ [][NextConfig]_vars

-----------------------------------------------------------------------------
(* Properties of a run (Spec) *)

Exited == pc = "exited"

NegativeResponse(r) == r.kind = "ImapError" /\ r.err = "No"

Recoverable(r) ==
    \/ r.kind = "ConfigError"
    \/ r.kind = "ImapError" /\ r.err # "No"

\* the positions of the trace that belong to account a
StepsOf(a) == {i \in DOMAIN trace : trace[i].account = a}

HasStep(a, step) == \E i \in StepsOf(a) : trace[i].step = step

HasOkStep(a, step) ==
    \E i \in StepsOf(a) : trace[i].step = step /\ trace[i].outcome = "Ok"

\* list_inbox has returned for account a
Returned(a) ==
    \/ \E k \in DOMAIN reported : reported[k].account = a
    \/ a = idx /\ pc = "report"

HasTls(a) == servers[a].imap.tls # None

\* C1: once an account's result is the negative response `No`, whatever
\* step returned it, that account is the last one reported, no step of a
\* later account was taken, and the process has exited with status 1.
C1_NegativeResponseHaltsRun ==
    \A k \in DOMAIN reported :
        NegativeResponse(reported[k].result) =>
            /\ k = Len(reported)
            /\ Exited
            /\ exit_status = Some(1)
            /\ \A i \in DOMAIN trace : trace[i].account <= reported[k].account

\* a `No` from logout of the first of several accounts has ended the run
C1_Witness ==
    /\ Exited
    /\ Len(servers) > 1
    /\ Len(reported) = 1
    /\ NegativeResponse(reported[1].result)
    /\ \E i \in StepsOf(1) : trace[i].step = "logout" /\ trace[i].outcome = "No"

\* C2: accounts are reported in configuration order; a recoverable failure
\* (ConfigError, or an ImapError other than `No`) ends only its own account:
\* the run ends before the last account only by a negative response or a
\* panic, a run that ends with status 0 has reported every account, and an
\* account reported Ok went through connect, login, select, fetch, print
\* and logout.
C2_RecoverableFailureSkipsAccount ==
    /\ \A k \in DOMAIN reported : reported[k].account = k
    /\ \A i \in 1 .. (Len(trace) - 1) : trace[i].account <= trace[i + 1].account
    /\ \A k \in DOMAIN reported :
          /\ reported[k].result.kind = "ImapError" =>
                \E i \in StepsOf(k) :
                    /\ trace[i].outcome = reported[k].result.err
                    /\ \A j \in StepsOf(k) : j <= i
          /\ reported[k].result.kind = "Ok" =>
                \A step \in {"connect", "login", "select", "fetch", "print",
                             "logout"} : HasOkStep(k, step)
          /\ Recoverable(reported[k].result) /\ k < Len(servers) =>
                \/ Len(reported) > k
                \/ ~Exited
                \/ exit_status = Some(PanicStatus)
    /\ Exited =>
          \/ Len(reported) = Len(servers)
          \/ exit_status = Some(PanicStatus)
          \/ reported # <<>> /\ NegativeResponse(reported[Len(reported)].result)
    /\ exit_status = Some(0) =>
          /\ Len(reported) = Len(servers)
          /\ \A k \in DOMAIN reported : ~NegativeResponse(reported[k].result)

\* three accounts, the second failed with a generic ImapError, the first
\* and the third were processed and reported Ok
C2_Witness ==
    /\ Exited
    /\ exit_status = Some(0)
    /\ Len(servers) = 3
    /\ Len(reported) = 3
    /\ reported[1].result.kind = "Ok"
    /\ reported[2].result = ImapError("Bad")
    /\ reported[3].result.kind = "Ok"
    /\ HasOkStep(3, "logout")

\* C3: an account without a TLS override is never connected to and no
\* command is sent for it; list_inbox returns the ConfigError whose message
\* names the account.
C3_NoTlsIsConfigurationError ==
    /\ \A a \in DOMAIN servers :
          ~HasTls(a) =>
              /\ StepsOf(a) = {}
              /\ \A c \in sessions : c.account # a
              /\ a = idx => pc \in {"loop", "dial", "report", "exited"}
              /\ a = idx /\ pc = "report" =>
                    result = [kind |-> "ConfigError",
                              msg |-> "No TLS configured for '"
                                        \o servers[a].name \o "'"]
    /\ \A k \in DOMAIN reported :
          ~HasTls(reported[k].account) =>
              reported[k].result =
                  [kind |-> "ConfigError",
                   msg |-> "No TLS configured for '"
                             \o servers[reported[k].account].name \o "'"]

\* the second account has no TLS override and has been reported
C3_Witness ==
    /\ Len(reported) >= 2
    /\ ~HasTls(2)
    /\ servers[2].name = "GMail"
    /\ reported[2].result.kind = "ConfigError"

\* C4: an account whose credentials are None and whose dial succeeded gets
\* no login command, its connection stays Unauthenticated, and list_inbox
\* returns a ConfigError, never an ImapError.
C4_NoCredentialsIsConfigurationError ==
    \A a \in DOMAIN servers :
        servers[a].credentials.kind = "None" /\ HasOkStep(a, "connect") =>
            /\ ~HasStep(a, "login")
            /\ \A c \in sessions : c.account = a => c.state = "Unauthenticated"
            /\ a = idx => pc \in {"login", "report", "loop", "exited"}
            /\ a = idx /\ pc = "report" => result.kind = "ConfigError"
            /\ \A k \in DOMAIN reported :
                  reported[k].account = a =>
                      reported[k].result =
                          [kind |-> "ConfigError",
                           msg |-> "No username and password configured for '\""
                                     \o servers[a].name \o "\"'"]

\* an account without credentials was dialed successfully and reported
C4_Witness ==
    \E k \in DOMAIN reported :
        /\ servers[k].credentials.kind = "None"
        /\ HasOkStep(k, "connect")
        /\ reported[k].result.kind = "ConfigError"

\* C5: port() of every configured endpoint is the TLS override's port when
\* there is one and the base port otherwise, and every connection was opened
\* to the endpoint's host on that port.
C5_EffectivePort ==
    /\ \A a \in DOMAIN servers :
          Imap_port(servers[a].imap) =
              IF servers[a].imap.tls = None
              THEN servers[a].imap.port
              ELSE servers[a].imap.tls[1].port
    /\ \A c \in sessions :
          /\ c.host = servers[c.account].imap.host
          /\ servers[c.account].imap.tls # None
          /\ c.port = servers[c.account].imap.tls[1].port

\* a connection is open to the override's port, which is not the base port
C5_Witness ==
    \E c \in sessions :
        /\ c.port = 993
        /\ servers[c.account].imap.port = 143

\* C6: a logout is only sent after the batch was printed, and once
\* list_inbox has returned for an account whose fetch succeeded, the batch
\* was printed after the fetch and a logout was sent after the printing.
C6_PrintThenLogout ==
    /\ \A j \in DOMAIN trace :
          trace[j].step = "logout" =>
              \E i \in 1 .. (j - 1) :
                  /\ trace[i].account = trace[j].account
                  /\ trace[i].step = "print"
    /\ \A f \in DOMAIN trace :
          /\ trace[f].step = "fetch"
          /\ trace[f].outcome = "Ok"
          /\ Returned(trace[f].account)
          => \E p, l \in DOMAIN trace :
                /\ f < p
                /\ p < l
                /\ trace[p].account = trace[f].account
                /\ trace[l].account = trace[f].account
                /\ trace[p].step = "print"
                /\ trace[l].step = "logout"
    /\ pc = "logout" =>
          Len(stdout) >= Len(PrintMessages(messages))
          /\ SubSeq(stdout, Len(stdout) - Len(PrintMessages(messages)) + 1,
                    Len(stdout)) = PrintMessages(messages)

\* list_inbox returned an error from logout after a non-empty batch was
\* fetched and printed
C6_Witness ==
    /\ pc = "report"
    /\ result.kind = "ImapError"
    /\ messages # <<>>
    /\ HasOkStep(idx, "print")
    /\ \E i \in StepsOf(idx) : trace[i].step = "logout" /\ trace[i].outcome = "Bad"

\* C10: at most one connection is open, it belongs to the account being
\* processed, and none is open when list_inbox has returned, when the next
\* account begins or when the process has ended.
C10_OneSessionAtATime ==
    /\ Cardinality(sessions) <= 1
    /\ \A c \in sessions : c.account = idx
    /\ pc \in {"load", "loop", "dial", "report", "exited"} => sessions = {}

\* the third account is being dialed after the second one failed at login
\* without credentials, on an open connection
C10_Witness ==
    /\ pc = "dial"
    /\ idx = 3
    /\ servers[2].credentials.kind = "None"
    /\ HasOkStep(2, "connect")
    /\ HasOkStep(1, "fetch")

-----------------------------------------------------------------------------
(* Properties of the printed form (SpecAddress, SpecProjector) *)

\* the text of the byte strings of the inputs, None for the malformed ones
TextOf(bytes) ==
    CASE bytes = <<100>> -> Some("d")
      [] bytes = <<104>> -> Some("h")
      [] bytes = <<109>> -> Some("m")
      [] bytes = <<110>> -> Some("n")
      [] bytes = <<115>> -> Some("s")
      [] bytes = <<195, 169>> -> Some("<U+00E9>")
      [] bytes = <<195>> -> None
      [] bytes = <<255>> -> None

Decodes(field) == field # None /\ TextOf(field[1]) # None

Rendered(field) ==
    IF Decodes(field) THEN "\"" \o TextOf(field[1])[1] \o "\"" ELSE "NIL"

RenderedAddress(a) ==
    "(" \o Rendered(a.name) \o " " \o Rendered(a.adl) \o " "
        \o Rendered(a.mailbox) \o " " \o Rendered(a.host) \o ")"

RECURSIVE RenderedList(_)
RenderedList(list) ==
    IF list = <<>> THEN ""
    ELSE RenderedAddress(list[1]) \o ", " \o RenderedList(Tail(list))

\* C7: print_addresses writes, after the head, each address as its four
\* sub-fields name, ADL, mailbox, host in parentheses, separated by single
\* spaces, a decodable sub-field as its text in double quotes and an absent
\* or undecodable one as NIL (each address followed by ", "); four absent
\* sub-fields give (NIL NIL NIL NIL), mailbox and host alone give
\* (NIL NIL "m" "h").
C7_AddressRendering ==
    pc = "printed" =>
        /\ stdout = <<head \o RenderedList(addresses)>>
        /\ addresses = <<[name |-> None, adl |-> None, mailbox |-> None,
                          host |-> None]>>
              => stdout = <<head \o "(NIL NIL NIL NIL), ">>
        /\ addresses = <<[name |-> None, adl |-> None, mailbox |-> Some(<<109>>),
                          host |-> Some(<<104>>)]>>
              => stdout = <<head \o "(NIL NIL \"m\" \"h\"), ">>
        /\ addresses = <<[name |-> Some(<<195>>), adl |-> None,
                          mailbox |-> Some(<<109>>), host |-> Some(<<255>>)]>>
              => stdout = <<head \o "(NIL NIL \"m\" NIL), ">>

\* an address with an undecodable name, no ADL, a mailbox and a host was
\* printed
C7_Witness ==
    /\ pc = "printed"
    /\ Len(addresses) = 1
    /\ addresses[1].name = Some(<<195>>)
    /\ addresses[1].adl = None
    /\ addresses[1].mailbox = Some(<<109>>)
    /\ addresses[1].host = Some(<<104>>)
    /\ stdout = <<head \o "(NIL NIL \"m\" \"h\"), ">>

AddressLine(h, field) ==
    IF field = None THEN <<>> ELSE <<h \o RenderedList(field[1])>>

\* the block of a message as C8 states it: nothing without an envelope,
\* Date and Subject whenever present
ClaimedBlock(m) ==
    IF m.envelope = None THEN <<>>
    ELSE LET e == m.envelope[1]
         IN  <<"---">>
                 \o AddressLine("From: ", e.from) \o AddressLine("To: ", e.to)
                 \o AddressLine("Cc: ", e.cc) \o AddressLine("Bcc: ", e.bcc)
                 \o (IF e.date # None
                     THEN <<"Date: " \o (IF Decodes(e.date)
                                         THEN TextOf(e.date[1])[1] ELSE "")>>
                     ELSE <<>>)
                 \o (IF e.subject # None
                     THEN <<"Subject: " \o (IF Decodes(e.subject)
                                            THEN TextOf(e.subject[1])[1] ELSE "")>>
                     ELSE <<>>)

\* the block of a message as the code prints it: the separator for every
\* message, Date and Subject when present and decodable
AmendedBlock(m) ==
    <<"---">> \o
        (IF m.envelope = None THEN <<>>
         ELSE LET e == m.envelope[1]
              IN  AddressLine("From: ", e.from) \o AddressLine("To: ", e.to)
                      \o AddressLine("Cc: ", e.cc) \o AddressLine("Bcc: ", e.bcc)
                      \o (IF Decodes(e.date)
                          THEN <<"Date: " \o TextOf(e.date[1])[1]>> ELSE <<>>)
                      \o (IF Decodes(e.subject)
                          THEN <<"Subject: " \o TextOf(e.subject[1])[1]>>
                          ELSE <<>>))

RECURSIVE ClaimedOutput(_)
ClaimedOutput(batch) ==
    IF batch = <<>> THEN <<>>
    ELSE ClaimedBlock(batch[1]) \o ClaimedOutput(Tail(batch))

RECURSIVE AmendedOutput(_)
AmendedOutput(batch) ==
    IF batch = <<>> THEN <<>>
    ELSE AmendedBlock(batch[1]) \o AmendedOutput(Tail(batch))

\* C8 as stated: the output is one block per message that has an envelope
\* and nothing else, with a Date and a Subject line whenever the field is
\* present; so it has exactly as many lines as those blocks have
C8_Original_BlocksOnlyForEnvelopes ==
    pc = "logout" => Len(stdout) = Len(ClaimedOutput(messages))

\* C8 amended: the output is one block per message, in batch order, and
\* nothing else: a separator line for every message, with or without an
\* envelope, then for a message with an envelope one line per populated
\* address field in the order From, To, Cc, Bcc, then a Date line and a
\* Subject line when the field is present and valid UTF-8.
C8_BlockPerMessage ==
    pc = "logout" => stdout = AmendedOutput(messages)

\* a message without an envelope, then one whose envelope has From, Bcc, a
\* Subject and an undecodable Date, were printed
C8_Witness ==
    /\ pc = "logout"
    /\ Len(messages) = 2
    /\ messages[1].envelope = None
    /\ messages[2].envelope # None
    /\ messages[2].envelope[1].date = Some(<<195>>)
    /\ messages[2].envelope[1].to = None
    /\ stdout = <<"---", "---", "From: (NIL NIL \"m\" \"h\"), ",
                  "Bcc: (NIL NIL NIL NIL), ", "Subject: s">>

-----------------------------------------------------------------------------
(* Properties of the defaults (SpecConfig) *)

\* C9: the default-constructed server has name "default", no credentials,
\* and an IMAP endpoint with host "localhost", base port 143, no TLS
\* override and effective port 143.
C9_Defaults ==
    pc = "default" =>
        /\ server.name = "default"
        /\ server.credentials = [kind |-> "None"]
        /\ server.imap.host = "localhost"
        /\ server.imap.port = 143
        /\ server.imap.tls = None
        /\ Imap_port(server.imap) = 143

====
